---- MODULE Spec2Model ----
(***************************************************************************)
(* PostgresProvider (keep/providers/postgres_provider/postgres_provider.py) *)
(* as a state machine: configuration validation, query, notify, dispose,   *)
(* each query/notify split at the points where the driver is called.       *)
(*                                                                         *)
(* The driver (psycopg2) and the validation library (pydantic) are outside *)
(* the repository; they are modelled by their documented behaviour:        *)
(*  - a connection starts a transaction on its first statement; commit()   *)
(*    makes the pending changes durable, close() without commit discards   *)
(*    them; close() is idempotent and does not raise; every other          *)
(*    operation on a closed connection raises InterfaceError;              *)
(*  - a dataclass field without a default must be passed; a field typed    *)
(*    str rejects None and accepts any string, the empty one included.     *)
(***************************************************************************)
EXTENDS Integers, FiniteSets, Sequences, TLC

VARIABLES
    authentication,         \* self.config.authentication: the raw mapping
    configStatus,           \* "new" | "ok" | "ConfigError"
    authentication_config,  \* self.authentication_config (NoConfig until set)
    conn,                   \* self.conn: 0 is None, else an index of conns
    conns,                  \* every connection psycopg2.connect returned
    connectAttempts,        \* calls of psycopg2.connect so far
    db,                     \* committed rows of the database
    call,                   \* per caller: the frame of its query/notify call
    acked,                  \* rows written by notify calls that returned
    disposals,              \* completed dispose() calls
    disposeLogged,          \* times dispose logged "Error closing ..."
    disposeRaised           \* some dispose() raised to its caller

vars == <<authentication, configStatus, authentication_config, conn, conns,
          connectAttempts, db, call, acked, disposals, disposeLogged,
          disposeRaised>>

(* ------------------------------ bounds -------------------------------- *)
MaxConns == 3
MaxDisposals == 2

(* ---------------------- configuration (lines 15-31) ------------------- *)
Missing == "<missing>"      \* the key is not in the mapping
Null == "<None>"            \* the key maps to None
NoConfig == [username |-> Missing, password |-> Missing, host |-> Missing,
             database |-> Missing, port |-> Missing]

Fields == {"username", "password", "host", "database", "port"}
RequiredFields == {"username", "password", "host"}
StrValues == {Missing, Null, "", "u"}
PortValues == {Missing, Null, "5432", "6543"}
DefaultPort == "5432"

AuthMappings ==
    {m \in [Fields -> StrValues \cup PortValues] :
        /\ \A f \in Fields \ {"port"} : m[f] \in StrValues
        /\ m["port"] \in PortValues}

\* mutant of StrFieldOk: the field is treated as `str | None`
StrFieldOk_AllowsNone(v) == v # Missing

\* a field annotated `str` with no default: the argument must be passed
\* and must not be None; any string passes
StrFieldOk(v) == v \notin {Missing, Null}

\* `database: str | None = dataclasses.field(metadata=...)`: None is
\* allowed, but the field has no default, so the argument must be passed
DatabaseFieldOk(v) == v # Missing

\* `port: str | None = dataclasses.field(default="5432", ...)`
PortField(v) == IF v = Missing THEN DefaultPort ELSE v

AuthConfigOk(m) ==
    /\ StrFieldOk(m["username"])
    /\ StrFieldOk(m["password"])
    /\ StrFieldOk(m["host"])
    /\ DatabaseFieldOk(m["database"])

PostgresProviderAuthConfig(m) ==
    [username |-> m["username"], password |-> m["password"],
     host |-> m["host"], database |-> m["database"],
     port |-> PortField(m["port"])]

(* --------------------------- statements ------------------------------- *)
NoneSql == "<None>"         \* kwargs.get("query") when the argument is absent
Sqls == {NoneSql, "", "select", "insert", "insert_returning", "bad"}

\* rows a statement adds to the table when it executes
Effect(sql) ==
    CASE sql = "insert" -> {"r1"}
      [] sql = "insert_returning" -> {"r2"}
      [] OTHER -> {}

\* whether the executed statement leaves a result set to fetch
ReturnsRows(sql) == sql \in {"select", "insert_returning"}

\* the server rejects the statement
Malformed(sql) == sql = "bad"

\* mutant of QueryMissing: `if query is None`
QueryMissing_NoneOnly(q) == q = NoneSql

\* `if not query`
QueryMissing(q) == q \in {NoneSql, ""}

(* ------------------------------ state --------------------------------- *)
Procs == {1, 2}

IdleCall ==
    [pc |-> "idle", op |-> "none", sql |-> NoneSql, conn |-> 0,
     error |-> "none", faults |-> {}, cursorRows |-> {}, results |-> {},
     connects |-> 0, executes |-> 0,
     dbAtStart |-> {}, connAtStart |-> 0, attemptsAtStart |-> 0,
     ackedAtStart |-> {}]

NewConn(p) ==
    [open |-> TRUE, owner |-> p, pending |-> {}, commits |-> 0,
     users |-> {}, closers |-> {}]

InitCommon ==
    /\ configStatus = "new"
    /\ authentication_config = NoConfig
    /\ conn = 0
    /\ conns = <<>>
    /\ connectAttempts = 0
    /\ db = {}
    /\ call = [p \in Procs |-> IdleCall]
    /\ acked = {}
    /\ disposals = 0
    /\ disposeLogged = 0
    /\ disposeRaised = FALSE

(* ----------------- validate_config (lines 62-68) ---------------------- *)
validate_config ==
    /\ IF AuthConfigOk(authentication)
       THEN /\ authentication_config' = PostgresProviderAuthConfig(authentication)
            /\ configStatus' = "ok"
       ELSE /\ authentication_config' = authentication_config
            /\ configStatus' = "ConfigError"
    /\ UNCHANGED <<authentication, conn, conns, connectAttempts, db, call,
                   acked, disposals, disposeLogged, disposeRaised>>

(* --------------------- driver connection helpers ---------------------- *)
\* connection.close() called by `who` (a caller, or 0 for dispose): the
\* connection is closed and whatever was not committed is discarded
CloseConn(c, who) ==
    [conns EXCEPT ![c].open = FALSE, ![c].pending = {},
                  ![c].closers = @ \cup {who}]

\* the frame of a call that has just been entered: `query = kwargs.get(...)`
\* and `if not query: raise ValueError`
Enter(op, q) ==
    [IdleCall EXCEPT
        !.op = op, !.sql = q,
        !.pc = IF QueryMissing(q) THEN "done" ELSE "connect",
        !.error = IF QueryMissing(q) THEN "ValueError" ELSE "none",
        !.dbAtStart = db, !.connAtStart = conn,
        !.attemptsAtStart = connectAttempts, !.ackedAtStart = acked]

(* ------------------------ query (lines 70-81) ------------------------- *)
query(p, q) ==
    /\ call[p].pc \in {"idle", "done"}
    /\ call' = [call EXCEPT ![p] = Enter("query", q)]
    /\ UNCHANGED <<authentication, configStatus, authentication_config, conn,
                   conns, connectAttempts, db, acked, disposals,
                   disposeLogged, disposeRaised>>

(* ----------------------- notify (lines 98-107) ------------------------ *)
notify(p, q) ==
    /\ call[p].pc \in {"idle", "done"}
    /\ call' = [call EXCEPT ![p] = Enter("notify", q)]
    /\ UNCHANGED <<authentication, configStatus, authentication_config, conn,
                   conns, connectAttempts, db, acked, disposals,
                   disposeLogged, disposeRaised>>

\* mutant of init_connection_connect: a failed connect is tried again
init_connection_connect_Retry(p, ok) ==
    /\ call[p].pc = "connect"
    /\ connectAttempts' = connectAttempts + 1
    /\ IF ok
       THEN /\ conns' = Append(conns, NewConn(p))
            /\ call' = [call EXCEPT ![p].pc = "store",
                                    ![p].conn = Len(conns) + 1,
                                    ![p].connects = @ + 1]
       ELSE /\ conns' = conns
            /\ call' = [call EXCEPT ![p].connects = @ + 1]
    /\ UNCHANGED <<authentication, configStatus, authentication_config, conn,
                   db, acked, disposals, disposeLogged, disposeRaised>>

(* ------------------ __init_connection (lines 39-54) ------------------- *)
\* lines 46-52: the arguments are read from self.authentication_config
\* (AttributeError when validation never set it), then psycopg2.connect
\* either returns a fresh open connection or raises
init_connection_connect(p, ok) ==
    /\ call[p].pc = "connect"
    /\ IF authentication_config = NoConfig
       THEN /\ call' = [call EXCEPT ![p].pc = "done",
                                    ![p].error = "AttributeError"]
            /\ UNCHANGED <<conns, connectAttempts>>
       ELSE /\ connectAttempts' = connectAttempts + 1
            /\ IF ok
               THEN /\ conns' = Append(conns, NewConn(p))
                    /\ call' = [call EXCEPT ![p].pc = "store",
                                            ![p].conn = Len(conns) + 1,
                                            ![p].connects = @ + 1]
               ELSE /\ conns' = conns
                    /\ call' = [call EXCEPT ![p].pc = "done",
                                            ![p].error = "OperationalError",
                                            ![p].faults = @ \cup {"connect"},
                                            ![p].connects = @ + 1]
    /\ UNCHANGED <<authentication, configStatus, authentication_config, conn,
                   db, acked, disposals, disposeLogged, disposeRaised>>

\* lines 53-54: self.conn = conn; return conn
init_connection_store(p) ==
    /\ call[p].pc = "store"
    /\ conn' = call[p].conn
    /\ call' = [call EXCEPT ![p].pc = "execute"]
    /\ UNCHANGED <<authentication, configStatus, authentication_config,
                   conns, connectAttempts, db, acked, disposals,
                   disposeLogged, disposeRaised>>

(* ------- the try body of query (82-93) and of notify (108-117) -------- *)
\* conn.cursor() twice, then cur.execute(query)
Execute(p, ok) ==
    LET f == call[p]
        c == f.conn
    IN
    /\ f.pc = "execute"
    /\ IF ~conns[c].open
       THEN /\ call' = [call EXCEPT ![p].pc = "finally",
                                    ![p].error = "InterfaceError",
                                    ![p].faults = @ \cup {"cursor"}]
            /\ conns' = conns
       ELSE IF ~ok \/ Malformed(f.sql)
       THEN /\ call' = [call EXCEPT ![p].pc = "finally",
                                    ![p].error = "ExecutionError",
                                    ![p].faults = @ \cup {"execute"},
                                    ![p].executes = @ + 1]
            /\ conns' = [conns EXCEPT ![c].users = @ \cup {p}]
       ELSE /\ call' = [call EXCEPT
                           ![p].pc = IF f.op = "notify" THEN "commit"
                                                        ELSE "fetch",
                           ![p].executes = @ + 1,
                           ![p].cursorRows =
                               IF f.sql = "select"
                               THEN db \cup conns[c].pending
                               ELSE Effect(f.sql)]
            /\ conns' = [conns EXCEPT ![c].pending = @ \cup Effect(f.sql),
                                      ![c].users = @ \cup {p}]
    /\ UNCHANGED <<authentication, configStatus, authentication_config, conn,
                   connectAttempts, db, acked, disposals, disposeLogged,
                   disposeRaised>>

\* mutant of FetchAll: query commits after fetching, as notify does
FetchAll_Committing(p) ==
    LET f == call[p]
        c == f.conn
    IN
    /\ f.pc = "fetch"
    /\ conns[c].open /\ ReturnsRows(f.sql)
    /\ call' = [call EXCEPT ![p].pc = "close", ![p].results = f.cursorRows]
    /\ db' = db \cup conns[c].pending
    /\ conns' = [conns EXCEPT ![c].pending = {}, ![c].commits = @ + 1]
    /\ UNCHANGED <<authentication, configStatus, authentication_config, conn,
                   connectAttempts, acked, disposals, disposeLogged,
                   disposeRaised>>

\* query, line 89: results = cur.fetchall()
FetchAll(p) ==
    LET f == call[p]
        c == f.conn
    IN
    /\ f.pc = "fetch"
    /\ IF ~conns[c].open
       THEN call' = [call EXCEPT ![p].pc = "finally",
                                 ![p].error = "InterfaceError",
                                 ![p].faults = @ \cup {"fetch"}]
       ELSE IF ~ReturnsRows(f.sql)
       THEN call' = [call EXCEPT ![p].pc = "finally",
                                 ![p].error = "ProgrammingError",
                                 ![p].faults = @ \cup {"fetch"}]
       ELSE call' = [call EXCEPT ![p].pc = "close",
                                 ![p].results = f.cursorRows]
    /\ UNCHANGED <<authentication, configStatus, authentication_config, conn,
                   conns, connectAttempts, db, acked, disposals,
                   disposeLogged, disposeRaised>>

\* mutant of Commit: notify closes without committing, as query does
Commit_Skipped(p, ok) ==
    /\ call[p].pc = "commit"
    /\ call' = [call EXCEPT ![p].pc = "close"]
    /\ UNCHANGED <<authentication, configStatus, authentication_config, conn,
                   conns, connectAttempts, db, acked, disposals,
                   disposeLogged, disposeRaised>>

\* notify, lines 115-116: cur.close(); conn.commit()
Commit(p, ok) ==
    LET f == call[p]
        c == f.conn
    IN
    /\ f.pc = "commit"
    /\ IF ~conns[c].open
       THEN /\ call' = [call EXCEPT ![p].pc = "finally",
                                    ![p].error = "InterfaceError",
                                    ![p].faults = @ \cup {"commit"}]
            /\ UNCHANGED <<conns, db>>
       ELSE IF ~ok
       THEN /\ call' = [call EXCEPT ![p].pc = "finally",
                                    ![p].error = "OperationalError",
                                    ![p].faults = @ \cup {"commit"}]
            /\ conns' = [conns EXCEPT ![c].users = @ \cup {p}]
            /\ db' = db
       ELSE /\ call' = [call EXCEPT ![p].pc = "close"]
            /\ db' = db \cup conns[c].pending
            /\ conns' = [conns EXCEPT ![c].pending = {},
                                      ![c].commits = @ + 1,
                                      ![c].users = @ \cup {p}]
    /\ UNCHANGED <<authentication, configStatus, authentication_config, conn,
                   connectAttempts, acked, disposals, disposeLogged,
                   disposeRaised>>

\* query lines 91-92, notify line 117: cur.close(); conn.close()
CloseInBody(p) ==
    /\ call[p].pc = "close"
    /\ conns' = CloseConn(call[p].conn, p)
    /\ call' = [call EXCEPT ![p].pc = "finally"]
    /\ UNCHANGED <<authentication, configStatus, authentication_config, conn,
                   connectAttempts, db, acked, disposals, disposeLogged,
                   disposeRaised>>

\* mutant of Finally: no finally clause, the connection is closed only by
\* the try body
Finally_NoClose(p) ==
    LET f == call[p] IN
    /\ f.pc = "finally"
    /\ call' = [call EXCEPT ![p].pc = "done"]
    /\ acked' = IF f.op = "notify" /\ f.error = "none"
                THEN acked \cup Effect(f.sql)
                ELSE acked
    /\ UNCHANGED <<authentication, configStatus, authentication_config, conn,
                   conns, connectAttempts, db, disposals, disposeLogged,
                   disposeRaised>>

\* mutant of Finally: the finally clause closes self.conn, the handle
\* stored on the adapter, instead of the local conn
Finally_ClosesStored(p) ==
    LET f == call[p] IN
    /\ f.pc = "finally"
    /\ conns' = CloseConn(conn, p)
    /\ call' = [call EXCEPT ![p].pc = "done"]
    /\ acked' = IF f.op = "notify" /\ f.error = "none"
                THEN acked \cup Effect(f.sql)
                ELSE acked
    /\ UNCHANGED <<authentication, configStatus, authentication_config, conn,
                   connectAttempts, db, disposals, disposeLogged,
                   disposeRaised>>

\* mutant of Finally: the commit sits in the finally clause, so it runs
\* after a failed execute too
Finally_Commits(p) ==
    LET f == call[p]
        c == f.conn
        committed == f.op = "notify" /\ conns[c].open
    IN
    /\ f.pc = "finally"
    /\ db' = IF committed THEN db \cup conns[c].pending ELSE db
    /\ conns' = [conns EXCEPT
                    ![c].open = FALSE, ![c].pending = {},
                    ![c].commits = IF committed THEN @ + 1 ELSE @,
                    ![c].closers = @ \cup {p}]
    /\ call' = [call EXCEPT ![p].pc = "done"]
    /\ acked' = IF f.op = "notify" /\ f.error = "none"
                THEN acked \cup Effect(f.sql)
                ELSE acked
    /\ UNCHANGED <<authentication, configStatus, authentication_config, conn,
                   connectAttempts, disposals, disposeLogged, disposeRaised>>

\* query lines 94-96, notify lines 118-120: finally: conn.close(), then the
\* call returns (error = "none") or the pending exception propagates
Finally(p) ==
    LET f == call[p] IN
    /\ f.pc = "finally"
    /\ conns' = CloseConn(f.conn, p)
    /\ call' = [call EXCEPT ![p].pc = "done"]
    /\ acked' = IF f.op = "notify" /\ f.error = "none"
                THEN acked \cup Effect(f.sql)
                ELSE acked
    /\ UNCHANGED <<authentication, configStatus, authentication_config, conn,
                   connectAttempts, db, disposals, disposeLogged,
                   disposeRaised>>

(* ------------------------ dispose (lines 56-60) ----------------------- *)
\* what `self.conn.close()` raises: with self.conn None the attribute
\* lookup raises AttributeError; closing a connection, open or already
\* closed, raises nothing
DisposeCloseError == IF conn = 0 THEN "AttributeError" ELSE "none"

\* mutant of CaughtByExcept: `except psycopg2.Error`
CaughtByExcept_Narrow(e) == e \in {"InterfaceError", "OperationalError"}

\* `except Exception` catches every exception the close can raise
CaughtByExcept(e) ==
    e \in {"AttributeError", "InterfaceError", "OperationalError"}

dispose ==
    /\ disposals' = disposals + 1
    /\ conns' = IF conn = 0 THEN conns ELSE CloseConn(conn, 0)
    /\ IF DisposeCloseError = "none"
       THEN UNCHANGED <<disposeLogged, disposeRaised>>
       ELSE IF CaughtByExcept(DisposeCloseError)
       THEN /\ disposeLogged' = disposeLogged + 1
            /\ disposeRaised' = disposeRaised
       ELSE /\ disposeLogged' = disposeLogged
            /\ disposeRaised' = TRUE
    /\ UNCHANGED <<authentication, configStatus, authentication_config, conn,
                   connectAttempts, db, call, acked>>

(* --------------------------- specifications --------------------------- *)
\* a caller enters query or notify with one of the statements of S
Begin(p, S) ==
    \/ \E q \in S : query(p, q)
    \/ \E q \in S : notify(p, q)

\* a call in flight takes its next step
Run(p) ==
    \/ \E ok \in BOOLEAN : init_connection_connect(p, ok)
    \/ init_connection_store(p)
    \/ \E ok \in BOOLEAN : Execute(p, ok)
    \/ FetchAll(p)
    \/ \E ok \in BOOLEAN : Commit(p, ok)
    \/ CloseInBody(p)
    \/ Finally(p)

\* no query/notify call is in flight
Quiet == \A p \in Procs : call[p].pc \in {"idle", "done"}

\* one caller, one call at a time; dispose between calls
ValidAuth == [username |-> "u", password |-> "u", host |-> "u",
              database |-> "u", port |-> Missing]
SeqAuths == {ValidAuth, [ValidAuth EXCEPT !.database = Missing]}
Init == authentication \in SeqAuths /\ InitCommon
Next ==
    \/ validate_config
    \/ connectAttempts < MaxConns /\ Begin(1, Sqls)
    \/ Run(1)
    \/ Quiet /\ disposals < MaxDisposals /\ dispose
Spec == Init /\ [][Next]_vars

\* two callers sharing the adapter, each issuing one call, the calls
\* interleaved at every step; one dispose at any time
ConcSqls == {"", "select", "insert", "bad"}
InitConc == authentication = ValidAuth /\ InitCommon
NextConc ==
    \/ validate_config
    \/ \E p \in Procs : call[p].pc = "idle" /\ Begin(p, ConcSqls)
    \/ \E p \in Procs : Run(p)
    \/ disposals = 0 /\ dispose
SpecConc == InitConc /\ [][NextConc]_vars

\* every mapping, validated before or after one call of one caller
InitConfig == authentication \in AuthMappings /\ InitCommon
NextConfig ==
    \/ validate_config
    \/ call[1].pc = "idle" /\ Begin(1, {"select"})
    \/ Run(1)
SpecConfig == InitConfig /\ [][NextConfig]_vars

(* ------------------------------ claims -------------------------------- *)
Opened == 1..Len(conns)

\* C1: in sequential use, whenever no call is in flight (every call so far
\* has returned or raised), no connection the adapter opened is open, the
\* handle stored on the adapter is absent or closed, and no dispose issued
\* between the calls has raised.
C1_ClosedBetweenCalls ==
    Quiet =>
        /\ \A c \in Opened : ~conns[c].open
        /\ conn = 0 \/ ~conns[conn].open
        /\ ~disposeRaised

\* a call whose execute failed has raised, its connection is closed, and a
\* dispose issued afterwards found the closed handle
C1_Witness ==
    /\ call[1].pc = "done"
    /\ call[1].error = "ExecutionError"
    /\ conn = call[1].conn
    /\ ~conns[conn].open
    /\ 0 \in conns[conn].closers

\* C2: a query or notify call whose `query` argument is absent or empty
\* fails with the validation error, and neither the number of connection
\* attempts nor the stored handle differs from what it was at the call.
C2_NoConnectWithoutQuery ==
    \A p \in Procs :
        (call[p].op # "none" /\ call[p].sql \in {NoneSql, ""}) =>
            /\ call[p].pc = "done"
            /\ call[p].error = "ValueError"
            /\ connectAttempts = call[p].attemptsAtStart
            /\ conn = call[p].connAtStart

\* an empty statement rejected on an adapter that has connected before
C2_Witness ==
    /\ call[1].op = "notify"
    /\ call[1].sql = ""
    /\ call[1].error = "ValueError"
    /\ call[1].connAtStart # 0
    /\ call[1].attemptsAtStart > 1

\* C3: a notify call that returned normally has committed its statement
\* (once, on its own connection, whose pending changes became part of the
\* database), and a select issued after notify calls returned reads every
\* row those calls wrote.
C3_NotifyCommits ==
    \A p \in Procs :
        /\ (call[p].op = "notify" /\ call[p].pc = "done"
                /\ call[p].error = "none") =>
              /\ conns[call[p].conn].commits = 1
              /\ Effect(call[p].sql) \subseteq db
        /\ (call[p].op = "query" /\ call[p].sql = "select"
                /\ call[p].pc = "done" /\ call[p].error = "none") =>
              call[p].ackedAtStart \subseteq call[p].results

\* a select that returned the row a previous notify inserted
C3_Witness ==
    /\ call[1].op = "query"
    /\ call[1].sql = "select"
    /\ call[1].pc = "done"
    /\ call[1].error = "none"
    /\ call[1].ackedAtStart = {"r1"}
    /\ "r1" \in call[1].results

C6_Original ==
    (\E f \in RequiredFields : authentication[f] \in {Missing, ""}) =>
        /\ configStatus # "ok"
        /\ connectAttempts = 0

\* C6 amended: a mapping with username, password or host missing or None
\* never validates, and no connection attempt is made with it.
C6_MissingRequiredFails ==
    (\E f \in RequiredFields : authentication[f] \in {Missing, Null}) =>
        /\ configStatus # "ok"
        /\ connectAttempts = 0

\* validation failed for a missing host, and the call made on that adapter
\* raised before connecting
C6_Witness ==
    /\ authentication["host"] = Missing
    /\ authentication["username"] = "u"
    /\ authentication["password"] = "u"
    /\ authentication["database"] = "u"
    /\ configStatus = "ConfigError"
    /\ call[1].pc = "done"
    /\ call[1].error = "AttributeError"
    /\ connectAttempts = 0

\* C7: once validated, a mapping that supplies username, password and host
\* has passed validation whether or not it has `database` or `port`, and
\* its port is "5432" when `port` is omitted.
C7_DatabaseAndPortOptional ==
    ((\A f \in RequiredFields : authentication[f] \notin {Missing, Null})
        /\ configStatus # "new") =>
        /\ configStatus = "ok"
        /\ authentication["port"] = Missing =>
               authentication_config.port = "5432"

\* C8: a call makes at most one connection attempt and one execute
\* attempt; after a connect or execute failure it takes no further step
\* but its cleanup, and it ends with an error for the caller.
C8_FailuresPropagateOnce ==
    \A p \in Procs :
        /\ call[p].connects <= 1
        /\ call[p].executes <= 1
        /\ (call[p].faults \cap {"connect", "execute"} # {}) =>
              /\ call[p].pc \in {"finally", "done"}
              /\ call[p].error # "none"

\* a call that raised the failure of its single execute attempt
C8_Witness ==
    /\ call[1].pc = "done"
    /\ call[1].faults = {"execute"}
    /\ call[1].connects = 1
    /\ call[1].executes = 1
    /\ call[1].error = "ExecutionError"

\* C9: with two calls interleaved on one adapter, a connection is executed
\* on, committed on and closed by no caller but the one that opened it,
\* and once both calls have returned every connection opened is closed.
C9_CallsOwnTheirConnections ==
    /\ \A c \in Opened :
          /\ conns[c].users \subseteq {conns[c].owner}
          /\ conns[c].closers \ {0} \subseteq {conns[c].owner}
    /\ (\A p \in Procs : call[p].pc = "done") =>
          \A c \in Opened : ~conns[c].open

\* both calls returned normally, caller 2's notify committed, and the
\* stored handle is caller 1's although caller 2 connected later: the
\* calls overlapped and caller 1 overwrote caller 2's reference
C9_Witness ==
    /\ \A p \in Procs : call[p].pc = "done" /\ call[p].error = "none"
    /\ call[1].conn = 1
    /\ call[2].conn = 2
    /\ call[2].op = "notify"
    /\ conns[2].commits = 1
    /\ conn = 1
    /\ disposals = 0

\* C10: in sequential use, a notify call whose execute failed never
\* commits on its connection, and once it has raised, the connection is
\* closed and the committed state is what it was when the call was entered.
C10_NoCommitAfterFailedExecute ==
    \A p \in Procs :
        (call[p].op = "notify" /\ "execute" \in call[p].faults) =>
            /\ conns[call[p].conn].commits = 0
            /\ call[p].pc = "done" =>
                  /\ ~conns[call[p].conn].open
                  /\ db = call[p].dbAtStart

\* a notify whose insert failed, raised with nothing committed
C10_Witness ==
    /\ call[1].op = "notify"
    /\ call[1].sql = "insert"
    /\ call[1].pc = "done"
    /\ call[1].faults = {"execute"}
    /\ "r1" \notin db

====
